---- MODULE Spec2Model ----
(***************************************************************************)
(* Normal form games (normal_form_game.py), fictitious play (fictplay.py)  *)
(* and logit dynamics (logitdyn.py).                                       *)
(*                                                                         *)
(* Representation.  A float is an exact rational <<n, d>> with d > 0 in    *)
(* lowest terms.  An ndarray is a function from index tuples (tuples of    *)
(* 0-based indices, one per axis) to numbers; a 1-dimensional array has    *)
(* the domain {<<0>>, ..., <<n-1>>}.  Players are numbered 0..N-1 as in    *)
(* the source.  An action handed to payoff_vector is tagged: Pure(a) for   *)
(* an integer, Mixed(x) for a 1-dimensional array.                         *)
(***************************************************************************)
EXTENDS Integers, Sequences, FiniteSets, TLC

VARIABLES
    N,                   \* NormalFormGame.N
    nums_actions,        \* NormalFormGame.nums_actions
    payoff_array,        \* payoff_array[i]: Player i's payoff_array
    current_assessment,  \* current_assessment[i]: attribute set on Player i by FictitiousPlay
    logit_choice_cdfs,   \* logit_choice_cdfs[i]: attribute set on Player i by LogitDynamics
    fp,                  \* the FictitiousPlay / StochasticFictitiousPlay objects
    ld,                  \* the LogitDynamics objects
    same_array,          \* TRUE iff both players' payoff_array is one ndarray object
    frame,               \* the method call in progress: its position and locals
    query,               \* arguments and results of the last Player method calls
    calls,               \* the number of iterate_result / play calls made so far
    mtrand,              \* np.random.mtrand._rand, the global generator: the draws made from it
    written              \* written[p]: the payoff profile last assigned by g[p] = v

vars == <<N, nums_actions, payoff_array, same_array, current_assessment,
          logit_choice_cdfs, fp, ld, frame, query, calls, mtrand, written>>

\* ------------------------------------------------------------------ bounds
\* Largest payoff entry of the generated games.
MaxPayoff == 2
\* Games are generated from seeds 0..MaxSeed.
MaxSeed == 3

\* ------------------------------------------------------------- arithmetic
Abs(x) == IF x < 0 THEN -x ELSE x

RECURSIVE GCD(_, _)
GCD(a, b) == IF b = 0 THEN a ELSE GCD(b, a % b)

Norm(n, d) ==
    LET g == GCD(Abs(n), Abs(d))
        s == IF d < 0 THEN -1 ELSE 1
    IN  <<s * (n \div g), s * (d \div g)>>

Rat(k) == <<k, 1>>
Zero == Rat(0)
One == Rat(1)

RAdd(x, y) ==
    IF x[2] = y[2] THEN Norm(x[1] + y[1], x[2])
    ELSE Norm(x[1] * y[2] + y[1] * x[2], x[2] * y[2])
RNeg(x) == <<-x[1], x[2]>>
RSub(x, y) == RAdd(x, RNeg(y))
RMul(x, y) == Norm(x[1] * y[1], x[2] * y[2])
RLe(x, y) == IF x[2] = y[2] THEN x[1] <= y[1] ELSE x[1] * y[2] <= y[1] * x[2]
RLt(x, y) == ~RLe(y, x)

\* Player.tol = 1e-8 = 1 / TolDen
TolDen == 100000000
tol == <<1, TolDen>>

\* v >= m - tol.  With m - v = p/q (q > 0): p/q <= 1/TolDen, i.e.
\* p * TolDen <= q, i.e. p <= q \div TolDen (no product that could overflow).
GeTol(v, m) ==
    LET diff == RSub(m, v)
    IN  diff[1] <= 0 \/ diff[1] <= diff[2] \div TolDen

\* ----------------------------------------------------------------- ndarray
Range(n) == 0 .. (n - 1)

RECURSIVE Indices(_)
\* The index tuples of an array of the given shape.
Indices(shape) ==
    IF shape = <<>> THEN {<<>>}
    ELSE LET rest == Indices(Tail(shape))
         IN  {<<a>> \o r : a \in Range(Head(shape)), r \in rest}

ndim(T) == Len(CHOOSE x \in DOMAIN T : TRUE)
AxisLen(T, axis) == Cardinality({x[axis] : x \in DOMAIN T})
shape(T) == [m \in 1 .. ndim(T) |-> AxisLen(T, m)]
len(v) == AxisLen(v, 1)

Front(s) == SubSeq(s, 1, Len(s) - 1)
Last(s) == s[Len(s)]

zeros(shp) == [x \in Indices(shp) |-> Zero]

\* ndarray.take(k, axis=-1): a new array, the last axis fixed at k.
take(T, k) == [x \in {Front(y) : y \in DOMAIN T} |-> T[Append(x, k)]]

RECURSIVE SumTo(_, _, _, _)
\* sum over k = m .. n-1 of T[x + (k,)] * v[k]
SumTo(T, x, v, m) ==
    IF m = len(v) THEN Zero
    ELSE RAdd(RMul(T[Append(x, m)], v[<<m>>]), SumTo(T, x, v, m + 1))

\* dot with the first term of the sum product left out
dotFromOne(T, v) == [x \in {Front(y) : y \in DOMAIN T} |-> SumTo(T, x, v, 1)]
\* ndarray.dot(v) for a 1-dimensional v: the sum product over the last axis.
dot(T, v) == [x \in {Front(y) : y \in DOMAIN T} |-> SumTo(T, x, v, 0)]

\* ndarray.transpose(axes): axis m of the result is axis axes[m] of T.
\* axes is a sequence of 0-based axis numbers.
PermuteIdx(a, axes) == [m \in 1 .. Len(a) |-> a[axes[m] + 1]]
transpose(T, axes) ==
    [b \in {PermuteIdx(a, axes) : a \in DOMAIN T} |->
        T[CHOOSE a \in DOMAIN T : PermuteIdx(a, axes) = b]]

\* list(range(lo, hi))
range(lo, hi) == [m \in 1 .. (IF hi > lo THEN hi - lo ELSE 0) |-> lo + m - 1]

\* tuple(s[i:]) + tuple(s[:i]) for a 1-based sequence s holding s[0..]
Rotate(s, i) == SubSeq(s, i + 1, Len(s)) \o SubSeq(s, 1, i)

Pure(a) == [kind |-> "pure", a |-> a]
Mixed(x) == [kind |-> "mixed", x |-> x]

\* ------------------------------------------------------------ pure2mixed
pure2mixed(num_actions, action) ==
    [x \in Indices(<<num_actions>>) |-> IF x[1] = action THEN One ELSE Zero]

\* ---------------------------------------------------------------- Player
num_opponents(pa) == ndim(pa) - 1
num_actions(pa) == AxisLen(pa, 1)

reduce_last_player(pa, action) ==
    IF action.kind = "pure" THEN take(pa, action.a) ELSE dot(pa, action.x)

RECURSIVE ReduceFrom(_, _, _)
\* for i in reversed(range(k)): pv = reduce_last_player(pv, opponents_actions[i])
ReduceFrom(pv, opponents_actions, k) ==
    IF k = 0 THEN pv
    ELSE ReduceFrom(reduce_last_player(pv, opponents_actions[k]),
                    opponents_actions, k - 1)

\* Player.payoff_vector.  With one opponent opponents_actions is the action
\* itself, with two or more it is the sequence of the opponents' actions.
payoff_vector(pa, opponents_actions) ==
    IF num_opponents(pa) = 1 THEN reduce_last_player(pa, opponents_actions)
    ELSE IF num_opponents(pa) >= 2
         THEN ReduceFrom(pa, opponents_actions, num_opponents(pa))
         ELSE pa

RECURSIVE MaxFrom(_, _)
MaxFrom(v, m) ==
    IF m = len(v) - 1 THEN v[<<m>>]
    ELSE LET r == MaxFrom(v, m + 1)
         IN  IF RLe(r, v[<<m>>]) THEN v[<<m>>] ELSE r
\* ndarray.max()
max(v) == MaxFrom(v, 0)

\* np.argmax: the first index holding the maximum.
argmax(v) == CHOOSE a \in Range(len(v)) :
    /\ v[<<a>>] = max(v)
    /\ \A b \in Range(len(v)) : v[<<b>>] = max(v) => a <= b

RECURSIVE WhereFrom(_, _, _)
WhereFrom(v, m, a) ==
    IF a = len(v) THEN <<>>
    ELSE (IF GeTol(v[<<a>>], m) THEN <<a>> ELSE <<>>) \o WhereFrom(v, m, a + 1)
\* where with the scan started at action 1
whereFromOne(v) == WhereFrom(v, max(v), 1)
\* np.where(payoff_vector >= payoff_vector.max() - self.tol)[0]
where(v) == WhereFrom(v, max(v), 0)

\* payoff_vector += payoff_perturbation, with numpy's broadcasting of a
\* one-element right-hand side; any other length mismatch raises ValueError.
CanAdd(v, p) == len(p) = len(v) \/ len(p) = 1
iadd(v, p) ==
    [x \in DOMAIN v |-> RAdd(v[x], IF len(p) = len(v) THEN p[x] ELSE p[<<0>>])]

\* An optional value is None or Some(x); a call returns Return(v) or
\* raises: Raise(e).
None == [kind |-> "None"]
Some(x) == [kind |-> "some", x |-> x]
Return(v) == [raised |-> "", value |-> v]
Raise(e) == [raised |-> e]

TieBreakings == {"smallest", "random", "False"}

\* The state of a random generator is its seed and the number of draws made
\* from it.  The seed is not modelled (the values drawn are inputs of the
\* actions); the calls of the global generator are counted modulo
\* MaxDraws + 1.
MaxDraws == 3
Advance(s, k) == (s + k) % (MaxDraws + 1)

\* a draw whatever the number of candidates
DrawsAlways(n) == 1
\* The number of random_state.randint(n) calls random_choice makes for n
\* candidates: none when n == 1.
Draws(n) == IF n = 1 THEN 0 ELSE 1

\* Player.random_choice(actions, random_state): idx is what
\* random_state.randint(n) returns when it is called.
random_choice(actions, idx) ==
    IF Len(actions) = 1 THEN actions[1] ELSE actions[idx + 1]

\* The payoff vector best_response works on.
perturbed(pa, opponents_actions, payoff_perturbation) ==
    IF payoff_perturbation = None THEN payoff_vector(pa, opponents_actions)
    ELSE iadd(payoff_vector(pa, opponents_actions), payoff_perturbation.x)

\* any other tie_breaking taken as False
best_responseLenient(pa, opponents_actions, tie_breaking, payoff_perturbation, idx) ==
    IF /\ payoff_perturbation # None
       /\ ~CanAdd(payoff_vector(pa, opponents_actions), payoff_perturbation.x)
    THEN Raise("ValueError")
    ELSE LET pv == perturbed(pa, opponents_actions, payoff_perturbation)
         IN  IF tie_breaking = "smallest" THEN Return(argmax(pv))
             ELSE IF tie_breaking = "random"
                  THEN Return(random_choice(where(pv), idx))
             ELSE Return(where(pv))

\* Player.best_response.  The result is an action, the sequence of the best
\* response actions, or a ValueError.
best_response(pa, opponents_actions, tie_breaking, payoff_perturbation, idx) ==
    IF /\ payoff_perturbation # None
       /\ ~CanAdd(payoff_vector(pa, opponents_actions), payoff_perturbation.x)
    THEN Raise("ValueError")
    ELSE LET pv == perturbed(pa, opponents_actions, payoff_perturbation)
         IN  IF tie_breaking = "smallest" THEN Return(argmax(pv))
             ELSE IF tie_breaking = "random"
                  THEN Return(random_choice(where(pv), idx))
             ELSE IF tie_breaking = "False" THEN Return(where(pv))
             ELSE Raise("ValueError")

\* -------------------------------------------------------- NormalFormGame
\* each Player built on the payoffs of player 0
PlayersFromProfileArrayOfFirst(data) ==
    LET n == ndim(data) - 1
    IN  [i \in Range(n) |-> transpose(take(data, 0), range(i, n) \o range(0, i))]

\* NormalFormGame.__init__, data an (N+1)-dimensional payoff profile array:
\* Player i holds data.take(i, axis=-1) with the axes rotated to start at i.
PlayersFromProfileArray(data) ==
    LET n == ndim(data) - 1
    IN  [i \in Range(n) |-> transpose(take(data, i), range(i, n) \o range(0, i))]

\* NormalFormGame.__init__, data a square matrix: both Players are built on
\* the one ndarray `data` (np.asarray returns its argument).
PlayersFromMatrix(data) == [i \in Range(2) |-> data]

Game(players, same) ==
    [N |-> Cardinality(DOMAIN players),
     nums_actions |-> [i \in DOMAIN players |-> num_actions(players[i])],
     payoff_array |-> players,
     same_array |-> same]

\* A payoff profile array of shape shp + (N,), from a seed.
GenEntry(x, s) ==
    LET i == Last(x)
        w == (x[1] * (s + 1)) + (IF Len(x) > 2 THEN x[2] * (i + 2) ELSE 0)
             + (IF Len(x) > 3 THEN x[3] * (s + i) ELSE 0)
    IN  Rat((w + i * s) % (MaxPayoff + 1))
GenArray(shp, s) == [x \in Indices(shp \o <<Len(shp)>>) |-> GenEntry(x, s)]

\* [[(1, -1), (-1, 1)], [(-1, 1), (1, -1)]], the game of test_fictplay.py
matching_pennies ==
    [x \in Indices(<<2, 2, 2>>) |->
        IF (x[1] = x[2]) = (x[3] = 0) THEN Rat(1) ELSE Rat(-1)]

\* ------------------------------------------------- Player method queries
NoQuery == [op |-> "none"]
NoFrame == [pc |-> "idle"]

BRShapes == {<<2, 2>>, <<2, 3>>, <<2, 2, 2>>}
BRGames ==
    {Game(PlayersFromProfileArray(GenArray(shp, s)), FALSE) :
        shp \in BRShapes, s \in 0 .. MaxSeed}
    \cup {Game(PlayersFromProfileArray(matching_pennies), FALSE)}

\* The pure action profiles of player i's opponents, in the order of its axes.
OpponentProfiles(i) == Indices(Tail(shape(payoff_array[i])))

\* The opponents' profile as payoff_vector takes it: opp is the pure profile,
\* S the positions handed over as pure2mixed(n, action) instead of action.
AsArgument(i, opp, S) ==
    LET entry(k) == IF k \in S
                    THEN Mixed(pure2mixed(AxisLen(payoff_array[i], k + 1), opp[k]))
                    ELSE Pure(opp[k])
    IN  IF N = 2 THEN entry(1) ELSE [k \in 1 .. (N - 1) |-> entry(k)]

InitGame(G) ==
    /\ N = G.N
    /\ nums_actions = G.nums_actions
    /\ payoff_array = G.payoff_array
    /\ same_array = G.same_array
    /\ current_assessment = [i \in Range(G.N) |-> None]
    /\ logit_choice_cdfs = [i \in Range(G.N) |-> None]
    /\ fp = <<>>
    /\ ld = <<>>
    /\ frame = NoFrame
    /\ query = NoQuery
    /\ calls = 0
    /\ mtrand = 0
    /\ written = <<>>

InitBR == \E G \in BRGames : InitGame(G)

\* player.payoff_vector(opp) and player.payoff_vector(opp with the actions
\* at S replaced by their mixed form).
PayoffVectorCall(i, opp, S) ==
    /\ query' = [op |-> "payoff_vector", player |-> i, opponents |-> opp,
                 replaced |-> S,
                 pure |-> payoff_vector(payoff_array[i], AsArgument(i, opp, {})),
                 mixed |-> payoff_vector(payoff_array[i], AsArgument(i, opp, S))]
    /\ UNCHANGED <<N, nums_actions, payoff_array, same_array, current_assessment,
                   logit_choice_cdfs, fp, ld, frame, calls,
                   mtrand, written>>

\* Values of a payoff perturbation: 0, 1 and 5e-9 (half of tol).
PerturbationValues == {Zero, One, <<1, 2 * TolDen>>}
Perturbations(n) == {Some(x) : x \in [Indices(<<n>>) -> PerturbationValues]}

\* player.best_response(opp, tie_breaking, payoff_perturbation) called with
\* each of the three tie_breaking values on the same arguments.  With one
\* or more opponents payoff_vector returns a new array (take, dot), so the
\* `+=` of the perturbation leaves payoff_array alone.
BestResponseCall(i, opp, pert, idx) ==
    /\ num_opponents(payoff_array[i]) >= 1
    /\ idx \in Range(Len(where(perturbed(payoff_array[i], opp, pert))))
    /\ query' = [op |-> "best_response", player |-> i, opponents |-> opp,
                 payoff_perturbation |-> pert,
                 smallest |-> best_response(payoff_array[i], opp, "smallest", pert, idx),
                 random |-> best_response(payoff_array[i], opp, "random", pert, idx),
                 all |-> best_response(payoff_array[i], opp, "False", pert, idx)]
    /\ UNCHANGED <<N, nums_actions, payoff_array, same_array, current_assessment,
                   logit_choice_cdfs, fp, ld, frame, calls, mtrand, written>>

NextBR ==
    \/ \E i \in Range(N) : \E opp \in OpponentProfiles(i) :
          \E S \in SUBSET (1 .. (N - 1)) : PayoffVectorCall(i, opp, S)
    \/ \E i \in Range(N) : \E opp \in OpponentProfiles(i) :
          \E pert \in {None} \cup Perturbations(nums_actions[i]) :
            \E idx \in Range(nums_actions[i]) :
              BestResponseCall(i, AsArgument(i, opp, {}), pert, idx)

SpecBR == InitBR /\ [][NextBR]_vars

\* -------------------------------------------------------- FictitiousPlay
\* Rounds of one call: ts_length ranges over 0..MaxRounds.
MaxRounds == 2
\* Calls of iterate_result in one behaviour.
MaxCalls == 1
\* The engines: the first and the second one constructed on the game.
Engines == {1, 2}

RECURSIVE Without(_, _)
\* list(range(n)) with i removed
Without(q, i) ==
    IF q = <<>> THEN <<>>
    ELSE (IF Head(q) = i THEN <<>> ELSE <<Head(q)>>) \o Without(Tail(q), i)
opponent_list(i) == Without(range(0, N), i)

assessment_sizes(i) ==
    [k \in 1 .. Len(opponent_list(i)) |-> nums_actions[opponent_list(i)[k]]]

\* What np.empty(n) holds is not initialized.  Two outcomes are modelled:
\* the allocator hands out zeroed memory, or memory holding stale values.
Stale == <<3, 2>>
empty(n, g) == [x \in Indices(<<n>>) |-> g]

\* The outcomes of the loop of __init__ that sets, for every player i,
\* current_assessment = [np.empty(self.nums_actions[j]) for j in opponent_list[i]].
EmptyAssessments ==
    {[i \in Range(N) |->
        Some([k \in 1 .. (N - 1) |-> empty(assessment_sizes(i)[k], g)])] :
        g \in {Zero, Stale}}

\* self._initial_weight = lambda t: 1 / (t+1)
initial_weight(t) == <<1, t + 1>>

\* self.step_size(t): the decreasing gain, or the constant epsilon.
step_size(engine, t) ==
    IF engine.step_size = "initial_weight" THEN initial_weight(t)
    ELSE engine.epsilon.x

\* step_size called with the loop index itself
StepArgLoopIndex(t) == t
\* The argument of step_size in the round of loop index t: step_size(t+1).
StepArg(t) == t + 1

NewEngine(cls, epsilon) ==
    [cls |-> cls,
     current_actions |-> [i \in Range(N) |-> 0],
     tie_breaking |-> "smallest",
     step_size |-> "initial_weight",
     epsilon |-> epsilon]

RECURSIVE PairsFrom(_)
\* The iterations (i, j) of `for i, player in enumerate(self.players):
\* for j in self.opponent_list[i]:`, in order.
PairsFrom(i) ==
    IF i >= N THEN <<>>
    ELSE [m \in 1 .. Len(opponent_list(i)) |-> <<i, opponent_list(i)[m]>>]
         \o PairsFrom(i + 1)

\* `if j > i: k = j - 1`: otherwise k keeps the value of the iteration before.
NextK(k, i, j) == IF j > i THEN j - 1 ELSE k

RECURSIVE SetInitLoop(_, _, _, _)
\* The loop of set_init_actions over the iterations in `pairs`; asmt[i] is
\* player i's current_assessment, slot k at position k + 1.
SetInitLoop(asmt, k, pairs, init_actions) ==
    IF pairs = <<>> THEN asmt
    ELSE LET i == pairs[1][1]
             j == pairs[1][2]
             k2 == NextK(k, i, j)
         IN  SetInitLoop(
                 [asmt EXCEPT ![i][k2 + 1] =
                     pure2mixed(assessment_sizes(i)[k2 + 1], init_actions[j])],
                 k2, Tail(pairs), init_actions)

\* the two statements of the update in the other order
UpdateSlotAddFirst(x, action, step) ==
    LET added == [x EXCEPT ![<<action>>] = RAdd(@, step)]
    IN  [y \in DOMAIN x |-> RMul(added[y], RSub(One, step))]
\* x[:] *= 1 - step_size;  x[action] += step_size
UpdateSlot(x, action, step) ==
    LET scaled == [y \in DOMAIN x |-> RMul(x[y], RSub(One, step))]
    IN  [scaled EXCEPT ![<<action>>] = RAdd(@, step)]

RECURSIVE UpdateLoop(_, _, _, _, _)
\* The loop of update_asseccements.
UpdateLoop(asmt, k, pairs, actions, step) ==
    IF pairs = <<>> THEN asmt
    ELSE LET i == pairs[1][1]
             j == pairs[1][2]
             k2 == NextK(k, i, j)
         IN  UpdateLoop(
                 [asmt EXCEPT ![i][k2 + 1] = UpdateSlot(@, actions[j], step)],
                 k2, Tail(pairs), actions, step)

Unwrapped(asmt) == [i \in DOMAIN asmt |-> asmt[i].x]
Wrapped(asmt) == [i \in DOMAIN asmt |-> Some(asmt[i])]

\* FictitiousPlay.set_init_actions: the assessments it leaves.
set_init_actions(asmt, init_actions) ==
    Wrapped(SetInitLoop(Unwrapped(asmt), -1, PairsFrom(0), init_actions))

\* FictitiousPlay.update_asseccements: the assessments it leaves.
update_asseccements(asmt, actions, step) ==
    Wrapped(UpdateLoop(Unwrapped(asmt), -1, PairsFrom(0), actions, step))

\* FictitiousPlay._sum_index
RECURSIVE SumSizes(_, _)
SumSizes(q, n) == IF n = 0 THEN 0 ELSE q[n] + SumSizes(q, n - 1)
RECURSIVE SumPlayers(_)
SumPlayers(i) ==
    IF i = 0 THEN 0
    ELSE SumSizes(assessment_sizes(i - 1), N - 1) + SumPlayers(i - 1)
sum_index(i, j) ==
    IF i = 0 THEN (IF j = 0 THEN 0 ELSE SumSizes(assessment_sizes(0), j))
    ELSE SumPlayers(i) + (IF j = 0 THEN 0 ELSE SumSizes(assessment_sizes(i), j))

Min(a, b) == IF a <= b THEN a ELSE b
\* v[lo:hi] of a 1-dimensional array: the bounds are clipped to its length.
Slice(v, lo, hi) ==
    LET l == Min(lo, len(v))
        h == Min(hi, len(v))
    IN  [lo |-> l, hi |-> IF h > l THEN h ELSE l,
         x |-> [x \in Indices(<<IF h > l THEN h - l ELSE 0>>) |-> v[<<x[1] + l>>]]]

\* payoff_perturbations of StochasticFictitiousPlay.play, from the drawn
\* random_values: slice j is random_values[_sum_index(j,0):_sum_index(j+1,0)].
payoff_perturbations(random_values) ==
    [j \in Range(N) |-> Slice(random_values, sum_index(j, 0), sum_index(j + 1, 0))]

\* What player i's best_response is called with in play().
AssessmentArgument(asmt, i) ==
    IF N > 2 THEN [k \in 1 .. (N - 1) |-> Mixed(asmt[i].x[k])]
    ELSE Mixed(asmt[i].x[1])

\* the assessments updated right after each player's best response
AfterPlayUpdateAtOnce(i) == "update"
\* The position after player i's best response in play(): the next player,
\* and update_asseccements once every player has chosen.
AfterPlay(i) == IF i + 1 < N THEN "play" ELSE "update"

\* The position after update_asseccements in round t of ts_length.
AfterUpdate(t, ts_length, cls) ==
    IF t + 1 < ts_length
    THEN (IF cls = "StochasticFictitiousPlay" THEN "draw" ELSE "play")
    ELSE "return"

FirstPc(ts_length, cls) ==
    IF ts_length = 0 THEN "return"
    ELSE IF cls = "StochasticFictitiousPlay" THEN "draw" ELSE "play"

Idle == frame.pc = "idle"

\* FictitiousPlay(g): FictitiousPlay.__init__ on the game.
NewFictitiousPlay(e, asmt) ==
    /\ Idle
    /\ e = Len(fp) + 1
    /\ fp' = Append(fp, NewEngine("FictitiousPlay", None))
    /\ current_assessment' = asmt
    /\ UNCHANGED <<N, nums_actions, payoff_array, same_array, logit_choice_cdfs,
                   ld, frame, query, calls,
                   mtrand, written>>

\* StochasticFictitiousPlay(g, epsilon=epsilon): __init__ stores epsilon in
\* _epsilon and leaves step_size as FictitiousPlay.__init__ set it.
NewStochasticFictitiousPlay(e, epsilon, asmt) ==
    /\ Idle
    /\ e = Len(fp) + 1
    /\ fp' = Append(fp, NewEngine("StochasticFictitiousPlay", epsilon))
    /\ current_assessment' = asmt
    /\ UNCHANGED <<N, nums_actions, payoff_array, same_array, logit_choice_cdfs,
                   ld, frame, query, calls,
                   mtrand, written>>

\* engine.epsilon = value: the setter, then _set_step_size.
SetEpsilon(e, value) ==
    /\ Idle
    /\ e \in DOMAIN fp
    /\ fp[e].cls = "StochasticFictitiousPlay"
    /\ fp' = [fp EXCEPT ![e].epsilon = value,
                        ![e].step_size = IF value = None THEN "initial_weight"
                                         ELSE "epsilon"]
    /\ UNCHANGED <<N, nums_actions, payoff_array, same_array, current_assessment,
                   logit_choice_cdfs, ld, frame, query, calls,
                   mtrand, written>>

\* The position after update_asseccements in round t of get_time_series_iter.
\* the loop left one round early
AfterUpdateSeriesOneShort(t, ts_length) ==
    IF t + 2 < ts_length THEN "yield" ELSE "return"
AfterUpdateSeries(t, ts_length) ==
    IF t + 1 < ts_length THEN "yield" ELSE "return"

FirstPcSeries(ts_length) == IF ts_length = 0 THEN "return" ELSE "yield"

\* The position after the yield of round t: play().
AfterYield(cls) == IF cls = "StochasticFictitiousPlay" THEN "draw" ELSE "play"

\* set_init_actions(init_actions) at the start of a call.  init_actions is
\* None or Some(profile); with None the profile is drawn, one
\* np.random.randint call per player, and randint is what they return.
Call(method, e, ts_length, init_actions, randint) ==
    LET profile == IF init_actions = None THEN randint ELSE init_actions.x
        asmt == set_init_actions(current_assessment, profile)
    IN  /\ Idle
        /\ e \in DOMAIN fp
        /\ calls < MaxCalls
        /\ init_actions # None => randint = init_actions.x
        /\ calls' = calls + 1
        /\ mtrand' = IF init_actions = None THEN Advance(mtrand, N) ELSE mtrand
        /\ fp' = [fp EXCEPT ![e].current_actions = profile]
        /\ current_assessment' = asmt
        /\ frame' = [pc |-> IF method = "iterate_result"
                            THEN FirstPc(ts_length, fp[e].cls)
                            ELSE FirstPcSeries(ts_length),
                     method |-> method, e |-> e,
                     ts_length |-> ts_length, t |-> 0, i |-> 0,
                     snapshot |-> asmt,
                     played |-> <<profile>>,
                     payoff_perturbations |-> <<>>,
                     steps |-> <<>>,
                     history |-> <<asmt>>,
                     rows |-> <<>>]
        /\ UNCHANGED <<N, nums_actions, payoff_array, same_array,
                       logit_choice_cdfs, ld, query, written>>

\* engine.iterate_result(ts_length, init_actions) up to the loop.
IterateResult(e, ts_length, init_actions, randint) ==
    Call("iterate_result", e, ts_length, init_actions, randint)

\* engine.get_time_series(ts_length, init_actions) up to the loop of
\* get_time_series_iter.
GetTimeSeries(e, ts_length, init_actions, randint) ==
    Call("get_time_series", e, ts_length, init_actions, randint)

\* The row of assessments_sequence written in get_time_series for the
\* yielded assessments: the slice _sum_index(i,j):_sum_index(i,j+1) is
\* assigned assessments[i][j].
PackRow(asmt) ==
    [a \in Indices(<<sum_index(N - 1, N - 1)>>) |->
        LET i == CHOOSE i \in Range(N) :
                    sum_index(i, 0) <= a[1] /\ a[1] < sum_index(i, N - 1)
            j == CHOOSE j \in Range(N - 1) :
                    sum_index(i, j) <= a[1] /\ a[1] < sum_index(i, j + 1)
        IN  asmt[i].x[j + 1][<<a[1] - sum_index(i, j)>>]]

\* assessment_list of get_time_series: entry [i][j] is
\* assessments_sequence[:, _sum_index(i,j):_sum_index(i,j+1)].
assessment_list(rows) ==
    [i \in Range(N) |->
        [k \in 1 .. (N - 1) |->
            [x \in Indices(<<Len(rows),
                             sum_index(i, k) - sum_index(i, k - 1)>>) |->
                rows[x[1] + 1][<<sum_index(i, k - 1) + x[2]>>]]]]

\* `yield self.current_assessments` and the body of the loop of
\* get_time_series that copies the yielded arrays into row t.
YieldStep ==
    /\ frame.pc = "yield"
    /\ frame' = [frame EXCEPT !.pc = AfterYield(fp[frame.e].cls),
                              !.rows = Append(@, PackRow(current_assessment))]
    /\ UNCHANGED <<N, nums_actions, payoff_array, same_array, current_assessment,
                   logit_choice_cdfs, fp, ld, query, calls, mtrand, written>>

\* StochasticFictitiousPlay.play up to its second loop: random_values is the
\* draw of payoff_perturbation_dist(size=n).
Draw(random_values) ==
    /\ frame.pc = "draw"
    /\ frame' = [frame EXCEPT !.pc = "play",
                              !.payoff_perturbations =
                                  payoff_perturbations(random_values)]
    /\ mtrand' = Advance(mtrand, 1)
    /\ UNCHANGED <<N, nums_actions, payoff_array, same_array, current_assessment,
                   logit_choice_cdfs, fp, ld, query, calls, written>>

\* One iteration of the loop of play(): player frame.i's best response.
PlayStep ==
    /\ frame.pc = "play"
    /\ LET e == frame.e
           i == frame.i
           pert == IF fp[e].cls = "StochasticFictitiousPlay"
                   THEN Some(frame.payoff_perturbations[i].x) ELSE None
           br == best_response(payoff_array[i],
                               AssessmentArgument(current_assessment, i),
                               fp[e].tie_breaking, pert, 0)
       IN  IF br.raised # ""
           THEN /\ frame' = [frame EXCEPT !.pc = "raised"]
                /\ fp' = fp
           ELSE /\ fp' = [fp EXCEPT ![e].current_actions[i] = br.value]
                /\ frame' = [frame EXCEPT !.pc = AfterPlay(i), !.i = i + 1]
    /\ UNCHANGED <<N, nums_actions, payoff_array, same_array, current_assessment,
                   logit_choice_cdfs, ld, query, calls,
                   mtrand, written>>

\* self.update_asseccements(self.step_size(t+1)) and the end of the loop body.
UpdateStep ==
    /\ frame.pc = "update"
    /\ LET e == frame.e
           step == step_size(fp[e], StepArg(frame.t))
           after == update_asseccements(current_assessment,
                                        fp[e].current_actions, step)
       IN  /\ current_assessment' = after
           /\ frame' =
                IF frame.i < N
                THEN [frame EXCEPT !.pc = "play"]
                ELSE [frame EXCEPT
                        !.pc = IF frame.method = "iterate_result"
                               THEN AfterUpdate(frame.t, frame.ts_length, fp[e].cls)
                               ELSE AfterUpdateSeries(frame.t, frame.ts_length),
                        !.t = @ + 1, !.i = 0,
                        !.snapshot = after,
                        !.history = Append(@, after),
                        !.played = Append(@, fp[e].current_actions),
                        !.payoff_perturbations = <<>>,
                        !.steps = Append(@, step)]
    /\ UNCHANGED <<N, nums_actions, payoff_array, same_array, logit_choice_cdfs,
                   fp, ld, query, calls,
                   mtrand, written>>

\* iterate_result returns self.current_assessments and get_time_series
\* returns assessment_list, or the ValueError of best_response leaves them.
ReturnStep ==
    /\ frame.pc \in {"return", "raised"}
    /\ frame' = NoFrame
    /\ UNCHANGED <<N, nums_actions, payoff_array, same_array, current_assessment,
                   logit_choice_cdfs, fp, ld, query, calls,
                   mtrand, written>>

\* [[4, 0], [3, 2]], the symmetric game of test_logitdyn.py
coordination_matrix ==
    [x \in Indices(<<2, 2>>) |->
        IF x = <<0, 0>> THEN Rat(4) ELSE IF x = <<0, 1>> THEN Rat(0)
        ELSE IF x = <<1, 0>> THEN Rat(3) ELSE Rat(2)]

FPGames ==
    {Game(PlayersFromProfileArray(matching_pennies), FALSE),
     Game(PlayersFromMatrix(coordination_matrix), TRUE),
     Game(PlayersFromProfileArray(GenArray(<<2, 3>>, 1)), FALSE),
     Game(PlayersFromProfileArray(GenArray(<<2, 2, 2>>, 1)), FALSE)}

\* The pure action profiles of the game.
ActionProfiles ==
    LET m == CHOOSE n \in {nums_actions[j] : j \in Range(N)} :
                 \A j \in Range(N) : nums_actions[j] <= n
    IN  {p \in [Range(N) -> Range(m)] : \A j \in Range(N) : p[j] < nums_actions[j]}

\* init_actions: None, or a pure action profile.
InitActions == {None} \cup {Some(p) : p \in ActionProfiles}

\* Values of epsilon; values the perturbation distribution returns.
EpsilonValues == {None, Some(<<1, 10>>)}
\* The draws of the perturbation distribution that are modelled: all
\* entries 0, or one entry 3 and the others 0.
RandomValues ==
    LET n == SumSizes([m \in 1 .. N |-> nums_actions[m - 1]], N)
    IN  {[x \in Indices(<<n>>) |-> IF x[1] = p THEN Rat(3) ELSE Zero] :
            p \in (-1) .. (n - 1)}

InitFP ==
    /\ \E G \in FPGames : InitGame(G)

\* One engine on the game, deterministic or stochastic.
NextFP ==
    \/ \E asmt \in EmptyAssessments : NewFictitiousPlay(1, asmt)
    \/ \E asmt \in EmptyAssessments :
         \E epsilon \in EpsilonValues : NewStochasticFictitiousPlay(1, epsilon, asmt)
    \/ \E value \in EpsilonValues : SetEpsilon(1, value)
    \/ \E ts_length \in 0 .. MaxRounds :
         \E init_actions \in ActionProfiles :
           IterateResult(1, ts_length, Some(init_actions), init_actions)
    \/ \E random_values \in RandomValues : Draw(random_values)
    \/ PlayStep
    \/ UpdateStep
    \/ ReturnStep

SpecFP == InitFP /\ [][NextFP]_vars

\* One engine on the game and its time series, init_actions given or left
\* None.
NextSeries ==
    \/ \E asmt \in EmptyAssessments : NewFictitiousPlay(1, asmt)
    \/ \E asmt \in EmptyAssessments : NewStochasticFictitiousPlay(1, None, asmt)
    \/ \E ts_length \in 0 .. MaxRounds :
         \E init_actions \in InitActions : \E randint \in ActionProfiles :
           GetTimeSeries(1, ts_length, init_actions, randint)
    \/ YieldStep
    \/ \E random_values \in RandomValues : Draw(random_values)
    \/ PlayStep
    \/ UpdateStep
    \/ ReturnStep

SpecSeries == InitFP /\ [][NextSeries]_vars

\* --------------------------------------------------------- LogitDynamics
\* beta is b * ln 2 for an integer b >= 0, so that exp(beta * x) = 2^(b*x)
\* is a rational for the integer payoff differences x <= 0 it is applied to.
Betas == {1, 2}

RECURSIVE Pow2(_)
Pow2(k) == IF k = 0 THEN 1 ELSE 2 * Pow2(k - 1)
\* np.exp(x * beta) for x <= 0
exp(x, b) == <<1, Pow2(b * (-x[1]))>>

\* T.max(axis=-1) at the index prefix pre
MaxLast(T, pre) ==
    max([h \in Indices(<<AxisLen(T, ndim(T))>>) |-> T[Append(pre, h[1])]])
\* T -= T.max(axis=-1)[..., np.newaxis]
SubtractMax(T) == [x \in DOMAIN T |-> RSub(T[x], MaxLast(T, Front(x)))]

RECURSIVE CumLast(_, _, _)
CumLast(T, pre, h) ==
    IF h < 0 THEN Zero ELSE RAdd(T[Append(pre, h)], CumLast(T, pre, h - 1))
\* T.cumsum(axis=-1)
cumsum(T) == [x \in DOMAIN T |-> CumLast(T, Front(x), Last(x))]

RECURSIVE LogitInitLoop(_, _, _, _)
\* The loop of LogitDynamics.__init__ from player i on.  The transposed
\* array is a view of player.payoff_array, so `-=` writes the payoff array
\* (of both players, when they are built on one ndarray).
LogitInitLoop(pa, cdfs, i, b) ==
    IF i = N THEN [payoff_array |-> pa, logit_choice_cdfs |-> cdfs]
    ELSE LET axes == range(1, N) \o <<0>>
             shifted == SubtractMax(transpose(pa[i], axes))
             shifted_back == [a \in DOMAIN pa[i] |-> shifted[PermuteIdx(a, axes)]]
             pa2 == IF same_array THEN [j \in DOMAIN pa |-> shifted_back]
                    ELSE [pa EXCEPT ![i] = shifted_back]
             table == cumsum([x \in DOMAIN shifted |-> exp(shifted[x], b)])
         IN  LogitInitLoop(pa2, [cdfs EXCEPT ![i] = Some(table)], i + 1, b)

\* LogitDynamics(g, beta): LogitDynamics.__init__.
NewLogitDynamics(e, b) ==
    /\ Idle
    /\ e = Len(ld) + 1
    /\ ld' = Append(ld, [beta |-> b])
    /\ LET done == LogitInitLoop(payoff_array, logit_choice_cdfs, 0, b)
       IN  /\ payoff_array' = done.payoff_array
           /\ logit_choice_cdfs' = done.logit_choice_cdfs
    /\ UNCHANGED <<N, nums_actions, same_array, current_assessment, fp, frame,
                   query, calls,
                   mtrand, written>>

\* NormalFormGame.__getitem__ for N >= 2: the payoff profile at the action
\* profile p.
getitem(pa, p) ==
    LET n == Cardinality(DOMAIN pa)
        profile == [m \in 1 .. n |-> p[m - 1]]
    IN  [i \in Range(n) |-> pa[i][Rotate(profile, i)]]

\* Engines of both kinds on one game: up to two LogitDynamics and up to two
\* FictitiousPlay objects.
NextEngines ==
    \/ \E e \in Engines : \E b \in Betas : NewLogitDynamics(e, b)
    \/ \E e \in Engines : \E asmt \in EmptyAssessments : NewFictitiousPlay(e, asmt)
    \/ \E e \in Engines : \E ts_length \in 0 .. MaxRounds :
         \E init_actions \in ActionProfiles :
           IterateResult(e, ts_length, Some(init_actions), init_actions)
    \/ PlayStep
    \/ UpdateStep
    \/ ReturnStep

SpecEngines == InitFP /\ [][NextEngines]_vars

\* ------------------------------------------- NormalFormGame construction
\* The argument of NormalFormGame(data): a sequence of Players, each given
\* by its payoff_array, or an array_like.
PlayersData(q) == [kind |-> "players", players |-> q]
ArrayData(a) == [kind |-> "array", a |-> a]

\* q[lo:hi] of a tuple, 0-based, with the clipping of Python slices
SliceSeq(q, lo, hi) ==
    [m \in 1 .. (IF Min(hi, Len(q)) > lo THEN Min(hi, Len(q)) - lo ELSE 0) |->
        q[lo + m]]
\* shape_0[i:] + shape_0[:i]
RotateShape(q, i) == SliceSeq(q, i, Len(q)) \o SliceSeq(q, 0, i)

\* without the test of the number of axes
ShapeConsistentNoRank(n, shape_0, shp, i) == shp = RotateShape(shape_0, i)
\* len(shape) == N and shape == shape_0[i:] + shape_0[:i]
ShapeConsistent(n, shape_0, shp, i) ==
    Len(shp) = n /\ shp = RotateShape(shape_0, i)

\* The players the loop `for i in range(1, N)` tests.
CheckedPlayers(n) == 1 .. (n - 1)

\* `data.ndim == 2 and data.shape[1] >= 2`: data is taken as the payoff
\* matrix of a symmetric two-player game.
IsMatrix(a) == ndim(a) = 2 /\ AxisLen(a, 2) >= 2

\* every matrix passes for square
NotSquareNever(a) == FALSE
\* data.shape[0] != data.shape[1]
NotSquare(a) == AxisLen(a, 1) # AxisLen(a, 2)

\* The action sizes in a 1-dimensional data, as integers.
Sizes(a) == [m \in 1 .. len(a) |-> a[<<m - 1>>][1]]

\* NormalFormGame.__init__: the game, or the ValueError.
NormalFormGame(data) ==
    IF data.kind = "players"
    THEN LET q == data.players
             n == Len(q)
             shape_0 == shape(q[1])
         IN  IF \E i \in CheckedPlayers(n) :
                    ~ShapeConsistent(n, shape_0, shape(q[i + 1]), i)
             THEN Raise("ValueError")
             ELSE Return(Game([i \in Range(n) |-> q[i + 1]], FALSE))
    ELSE LET a == data.a
         IN  IF ndim(a) = 0
             THEN Return(Game([i \in Range(1) |-> zeros(<<a[<<>>][1]>>)], FALSE))
             ELSE IF ndim(a) = 1
             THEN Return(Game([i \in Range(len(a)) |->
                                  zeros(RotateShape(Sizes(a), i))], FALSE))
             ELSE IF IsMatrix(a)
             THEN (IF NotSquare(a) THEN Raise("ValueError")
                   ELSE Return(Game(PlayersFromMatrix(a), TRUE)))
             ELSE IF AxisLen(a, ndim(a)) # ndim(a) - 1 THEN Raise("ValueError")
             ELSE Return(Game(PlayersFromProfileArray(a), FALSE))

\* g = NormalFormGame(data): on success g is the new game, on an error g
\* stays the game it was.
NewNormalFormGame(data) ==
    LET r == NormalFormGame(data)
    IN  /\ query' = [op |-> "NormalFormGame", data |-> data, raised |-> r.raised]
        /\ IF r.raised = ""
           THEN /\ N' = r.value.N
                /\ nums_actions' = r.value.nums_actions
                /\ payoff_array' = r.value.payoff_array
                /\ same_array' = r.value.same_array
                /\ current_assessment' = [i \in Range(r.value.N) |-> None]
                /\ logit_choice_cdfs' = [i \in Range(r.value.N) |-> None]
           ELSE UNCHANGED <<N, nums_actions, payoff_array, same_array,
                            current_assessment, logit_choice_cdfs>>
        /\ UNCHANGED <<fp, ld, frame, calls, mtrand, written>>

\* An array of generated numbers of a shape.
Filled(shp, s) == [x \in Indices(shp) |-> GenEntry(x \o <<0>>, s)]

\* The shapes of the payoff arrays of the Players handed to the constructor.
PlayerShapes ==
    {<<2>>, <<3>>, <<2, 2>>, <<2, 3>>, <<3, 2>>, <<2, 2, 3>>, <<2, 3, 2>>,
     <<3, 2, 2>>}
PlayersLists ==
    {PlayersData(<<Filled(a, 1)>>) : a \in PlayerShapes}
    \cup {PlayersData(<<Filled(a, 1), Filled(b, 2)>>) :
            a \in PlayerShapes, b \in PlayerShapes}
    \cup {PlayersData(<<Filled(a, 1), Filled(b, 2), Filled(c, 0)>>) :
            a \in {<<2, 3, 2>>}, b \in {<<3, 2, 2>>, <<2, 3, 2>>, <<3, 2>>},
            c \in {<<2, 2, 3>>, <<2, 3, 2>>, <<2, 3>>}}

\* array_like data: an action size, tuples of action sizes, matrices with
\* 1..3 rows and columns, payoff profile arrays.
ArrayLikes ==
    {ArrayData([x \in {<<>>} |-> Rat(2)])}
    \cup {ArrayData([x \in Indices(<<Len(q)>>) |-> Rat(q[x[1] + 1])]) :
            q \in {<<2>>, <<2, 3>>, <<2, 2, 3>>}}
    \cup {ArrayData(Filled(<<r, c>>, s)) :
            r \in 1 .. 3, c \in 1 .. 3, s \in 0 .. MaxSeed}
    \cup {ArrayData(GenArray(shp, s)) : shp \in BRShapes, s \in 0 .. MaxSeed}
    \cup {ArrayData(Filled(<<2, 2, 3>>, 1)), ArrayData(Filled(<<2, 3, 2, 2>>, 1))}

InitNew == InitGame(Game(PlayersFromProfileArray(matching_pennies), FALSE))

NextNew == \E data \in PlayersLists \cup ArrayLikes : NewNormalFormGame(data)

SpecNew == InitNew /\ [][NextNew]_vars

\* ------------------------------------- NormalFormGame profile access
\* Distinct action profiles assigned to in one behaviour.
MaxWrites == 2

\* An index: an integer or a tuple of integers.  A value: a number or a
\* tuple of numbers.
IntArg(a) == [kind |-> "int", a |-> a]
TupleArg(t) == [kind |-> "tuple", t |-> t]
ScalarValue(x) == [kind |-> "scalar", x |-> x]
TupleValue(v) == [kind |-> "tuple", v |-> v]

\* NormalFormGame.__getitem__: the payoff profile (as a sequence), or the
\* error.
GetItem(pa, arg) ==
    LET n == Cardinality(DOMAIN pa)
    IN  IF n = 1
        THEN (IF arg.kind # "int" THEN Raise("TypeError")
              ELSE Return(pa[0][<<arg.a>>]))
        ELSE IF arg.kind = "int" THEN Raise("TypeError")
        ELSE IF Len(arg.t) # n THEN Raise("IndexError")
        ELSE LET r == getitem(pa, [i \in Range(n) |-> arg.t[i + 1]])
             IN  Return([m \in 1 .. n |-> r[m - 1]])

\* every payoff profile passes for one of length N
ValueLengthWrongNever(value, n) == FALSE
\* len(payoff_profile) != self.N
ValueLengthWrong(value, n) == Len(value.v) # n

\* each player is assigned the payoff of player 0
ComponentOfFirst(v, i) == v[1]
\* payoff_profile[i]
Component(v, i) == v[i + 1]

RECURSIVE SetItemLoop(_, _, _, _, _)
\* The loop of __setitem__ from player i on.  payoff_profile[i] past the
\* end of the tuple is an IndexError that leaves the loop.
SetItemLoop(pa, same, t, v, i) ==
    IF i = Cardinality(DOMAIN pa) THEN [raised |-> "", payoff_array |-> pa]
    ELSE IF i >= Len(v) THEN [raised |-> "IndexError", payoff_array |-> pa]
    ELSE LET assigned == [pa[i] EXCEPT ![Rotate(t, i)] = Component(v, i)]
             pa2 == IF same THEN [j \in DOMAIN pa |-> assigned]
                    ELSE [pa EXCEPT ![i] = assigned]
         IN  SetItemLoop(pa2, same, t, v, i + 1)

\* NormalFormGame.__setitem__: the error raised, if any, and the payoff
\* arrays after the call.
SetItem(pa, same, arg, value) ==
    LET n == Cardinality(DOMAIN pa)
        failed(e) == [raised |-> e, payoff_array |-> pa]
    IN  IF n = 1
        THEN (IF arg.kind # "int" THEN failed("TypeError")
              ELSE IF value.kind # "scalar" THEN failed("ValueError")
              ELSE [raised |-> "",
                    payoff_array |-> [pa EXCEPT ![0][<<arg.a>>] = value.x]])
        ELSE IF arg.kind = "int" THEN failed("TypeError")
        ELSE IF Len(arg.t) # n THEN failed("IndexError")
        ELSE IF value.kind = "scalar" THEN failed("TypeError")
        ELSE IF ValueLengthWrong(value, n) THEN failed("ValueError")
        ELSE SetItemLoop(pa, same, arg.t, value.v, 0)

\* the test of every player but the last
PlayersTestedButLast(n) == Range(n - 1)
\* for i, player in enumerate(self.players)
PlayersTested(n) == Range(n)

\* Player.is_best_response, own_action pure or mixed.
is_best_response(pa, own_action, opponents_actions) ==
    LET pv == payoff_vector(pa, opponents_actions)
    IN  IF own_action.kind = "pure" THEN GeTol(pv[<<own_action.a>>], max(pv))
        ELSE GeTol(dot(pv, own_action.x)[<<>>], max(pv))

\* NormalFormGame.is_nash, action_profile the sequence of the N actions.
is_nash(pa, action_profile) ==
    LET n == Cardinality(DOMAIN pa)
    IN  IF n = 2
        THEN \A i \in PlayersTested(n) :
                is_best_response(pa[i], action_profile[i + 1],
                                 action_profile[(1 - i) + 1])
        ELSE IF n >= 3
        THEN \A i \in PlayersTested(n) :
                is_best_response(pa[i], action_profile[i + 1],
                                 Tail(Rotate(action_profile, i)))
        ELSE is_best_response(pa[0], action_profile[1], None)

\* The action profiles as tuples.
ProfileTuples == {[m \in 1 .. N |-> p[m - 1]] : p \in ActionProfiles}
\* The payoff profile last assigned at the profile t, zeros if none was.
LastWritten(t) ==
    IF t \in DOMAIN written THEN written[t] ELSE [m \in 1 .. N |-> Zero]

\* g[arg]
GetItemCall(arg) ==
    /\ query' = [op |-> "getitem", arg |-> arg,
                 result |-> GetItem(payoff_array, arg)]
    /\ UNCHANGED <<N, nums_actions, payoff_array, same_array, current_assessment,
                   logit_choice_cdfs, fp, ld, frame, calls, mtrand, written>>

\* g[arg] = value
SetItemCall(arg, value) ==
    LET r == SetItem(payoff_array, same_array, arg, value)
    IN  /\ r.raised = "" => Cardinality(DOMAIN written \cup {arg.t}) <= MaxWrites
        /\ payoff_array' = r.payoff_array
        /\ written' = IF r.raised # "" THEN written
                      ELSE [t \in DOMAIN written \cup {arg.t} |->
                               IF t = arg.t THEN value.v ELSE written[t]]
        /\ query' = [op |-> "setitem", arg |-> arg, value |-> value,
                     raised |-> r.raised]
        /\ UNCHANGED <<N, nums_actions, same_array, current_assessment,
                       logit_choice_cdfs, fp, ld, frame, calls, mtrand>>

\* g.is_nash(t), t a pure action profile
IsNashCall(t) ==
    /\ query' = [op |-> "is_nash", profile |-> t,
                 result |-> is_nash(payoff_array, [m \in 1 .. N |-> Pure(t[m])])]
    /\ UNCHANGED <<N, nums_actions, payoff_array, same_array, current_assessment,
                   logit_choice_cdfs, fp, ld, frame, calls, mtrand, written>>

\* Indices: the profiles, a tuple of one action, a tuple of N + 1 actions,
\* an integer.
IndexArgs ==
    {TupleArg(t) : t \in ProfileTuples}
    \cup {TupleArg(<<0>>), TupleArg([m \in 1 .. (N + 1) |-> 0]), IntArg(0)}
\* Payoff profiles: (1, ..., N), (N, ..., 1), these one short and one too
\* long, a number.
PayoffProfiles ==
    {TupleValue([m \in 1 .. N |-> Rat(m)]),
     TupleValue([m \in 1 .. N |-> Rat(N + 1 - m)]),
     TupleValue([m \in 1 .. (N - 1) |-> Rat(m)]),
     TupleValue([m \in 1 .. (N + 1) |-> Rat(m)]),
     ScalarValue(One)}

\* The games NormalFormGame((2, 2)) and NormalFormGame((2, 1, 2)).
SizeTuples == {<<2, 2>>, <<2, 1, 2>>}
InitSet ==
    \E q \in SizeTuples :
        InitGame(NormalFormGame(
            ArrayData([x \in Indices(<<Len(q)>>) |-> Rat(q[x[1] + 1])])).value)

NextSet ==
    \/ \E arg \in IndexArgs : GetItemCall(arg)
    \/ \E arg \in IndexArgs : \E value \in PayoffProfiles : SetItemCall(arg, value)
    \/ \E t \in ProfileTuples : IsNashCall(t)

SpecSet == InitSet /\ [][NextSet]_vars

\* ------------------------------------------------------ random selection
\* Values of tie_breaking other than 'smallest', 'random' and False.
OtherTieBreakings == {"largest", "True", "0"}

\* Player.random_choice(actions): the candidates are `actions`, or all the
\* actions of the player when actions is None.
CandidatesOf(pa, actions) ==
    IF actions = None THEN range(0, num_actions(pa)) ELSE actions.x

\* game_tools.random_choice(actions): the number of np.random.choice calls.
ToolsDraws(actions) == IF Len(actions) = 1 THEN 0 ELSE 1
\* game_tools.random_choice(actions): idx is the position np.random.choice
\* picks when it is called.
tools_random_choice(actions, idx) ==
    IF Len(actions) = 1 THEN actions[1] ELSE actions[idx + 1]

\* player.best_response(opp, tie_breaking=tie_breaking), random_state left
\* None: check_random_state gives the global generator.
BestResponseWith(i, opp, tie_breaking, idx) ==
    LET candidates == where(payoff_vector(payoff_array[i], opp))
    IN  /\ idx \in Range(Len(candidates))
        /\ tie_breaking # "random" => idx = 0
        /\ query' = [op |-> "best_response(tie_breaking)", player |-> i,
                     opponents |-> opp, tie_breaking |-> tie_breaking,
                     result |-> best_response(payoff_array[i], opp, tie_breaking,
                                              None, idx)]
        /\ mtrand' = IF tie_breaking = "random"
                     THEN Advance(mtrand, Draws(Len(candidates))) ELSE mtrand
        /\ UNCHANGED <<N, nums_actions, payoff_array, same_array,
                       current_assessment, logit_choice_cdfs, fp, ld, frame, calls,
                       written>>

\* player.random_choice(actions), random_state left None.
RandomChoiceCall(i, actions, idx) ==
    LET candidates == CandidatesOf(payoff_array[i], actions)
    IN  /\ idx \in Range(Len(candidates))
        /\ query' = [op |-> "random_choice", player |-> i, actions |-> actions,
                     result |-> Return(random_choice(candidates, idx))]
        /\ mtrand' = Advance(mtrand, Draws(Len(candidates)))
        /\ UNCHANGED <<N, nums_actions, payoff_array, same_array,
                       current_assessment, logit_choice_cdfs, fp, ld, frame, calls,
                       written>>

\* game_tools.random_choice(actions): np.random.choice draws from the global
\* generator.
ToolsRandomChoiceCall(actions, idx) ==
    /\ idx \in Range(Len(actions))
    /\ query' = [op |-> "game_tools.random_choice", actions |-> Some(actions),
                 result |-> Return(tools_random_choice(actions, idx))]
    /\ mtrand' = Advance(mtrand, ToolsDraws(actions))
    /\ UNCHANGED <<N, nums_actions, payoff_array, same_array, current_assessment,
                   logit_choice_cdfs, fp, ld, frame, calls, written>>

\* Lists of candidate actions.
ActionLists == {<<0>>, <<1>>, <<0, 1>>, <<1, 0>>}

ChoiceGames ==
    {Game(PlayersFromProfileArray(matching_pennies), FALSE),
     Game(PlayersFromProfileArray(GenArray(<<2, 3>>, 1)), FALSE),
     Game(PlayersFromProfileArray(GenArray(<<1, 2>>, 1)), FALSE),
     Game(PlayersFromProfileArray(GenArray(<<2, 2, 2>>, 1)), FALSE)}

InitChoice == \E G \in ChoiceGames : InitGame(G)

NextChoice ==
    \/ \E i \in Range(N) : \E opp \in OpponentProfiles(i) :
         \E tie_breaking \in TieBreakings \cup OtherTieBreakings :
           \E idx \in Range(nums_actions[i]) :
             BestResponseWith(i, AsArgument(i, opp, {}), tie_breaking, idx)
    \/ \E i \in Range(N) : \E actions \in {None} \cup {Some(q) : q \in ActionLists} :
         \E idx \in Range(2) :
           /\ actions # None => \A m \in 1 .. Len(actions.x) :
                                    actions.x[m] < nums_actions[i]
           /\ RandomChoiceCall(i, actions, idx)
    \/ \E actions \in ActionLists : \E idx \in Range(2) :
         ToolsRandomChoiceCall(actions, idx)

SpecChoice == InitChoice /\ [][NextChoice]_vars

\* ------------------------------------------------------ util.searchsorted
\* The longest array searched.
MaxLen == 3

\* The arrays searched hold a[0], a[1], ... at the positions 1, 2, ...
SearchValues == {Rat(k) : k \in 0 .. MaxPayoff}
SearchedFor == {Rat(k) : k \in (-1) .. (MaxPayoff + 1)}
Ascending(a) == \A m \in 1 .. (Len(a) - 1) : RLe(a[m], a[m + 1])
SortedArrays ==
    {a \in UNION {[1 .. n -> SearchValues] : n \in 0 .. MaxLen} : Ascending(a)}

\* the test taken as `v <= a[m]`
LessOrEqual(v, x) == RLe(v, x)
\* if v < a[m]:
Less(v, x) == RLt(v, x)

\* m = (lo + hi) // 2
Mid(lo, hi) == (lo + hi) \div 2

\* searchsorted(a, v) is called: lo = -1, hi = len(a).
Searchsorted(a, v) ==
    /\ frame.pc \in {"idle", "searchsorted.return"}
    /\ frame' = [pc |-> "searchsorted.while", a |-> a, v |-> v,
                 lo |-> -1, hi |-> Len(a), read |-> <<>>]
    /\ UNCHANGED <<N, nums_actions, payoff_array, same_array, current_assessment,
                   logit_choice_cdfs, fp, ld, query, calls, mtrand, written>>

\* One iteration of while(lo < hi-1); `read` lists the indices m at which
\* a[m] was read.
SearchsortedWhile ==
    /\ frame.pc = "searchsorted.while"
    /\ frame.lo < frame.hi - 1
    /\ LET m == Mid(frame.lo, frame.hi)
       IN  frame' = IF Less(frame.v, frame.a[m + 1])
                    THEN [frame EXCEPT !.hi = m, !.read = Append(@, m)]
                    ELSE [frame EXCEPT !.lo = m, !.read = Append(@, m)]
    /\ UNCHANGED <<N, nums_actions, payoff_array, same_array, current_assessment,
                   logit_choice_cdfs, fp, ld, query, calls, mtrand, written>>

\* The loop is left: return hi.
SearchsortedReturn ==
    /\ frame.pc = "searchsorted.while"
    /\ ~(frame.lo < frame.hi - 1)
    /\ frame' = [pc |-> "searchsorted.return", a |-> frame.a, v |-> frame.v,
                 result |-> frame.hi, read |-> frame.read]
    /\ UNCHANGED <<N, nums_actions, payoff_array, same_array, current_assessment,
                   logit_choice_cdfs, fp, ld, query, calls, mtrand, written>>

InitSearch == InitGame(Game(PlayersFromProfileArray(matching_pennies), FALSE))

NextSearch ==
    \/ \E a \in SortedArrays : \E v \in SearchedFor : Searchsorted(a, v)
    \/ SearchsortedWhile
    \/ SearchsortedReturn

\* The body of the function runs on once it is called.
SpecSearch ==
    /\ InitSearch
    /\ [][NextSearch]_vars
    /\ WF_vars(SearchsortedWhile)
    /\ WF_vars(SearchsortedReturn)

\* ------------------------------- LogitDynamics.play and .time_series
\* The longest revision sequence, and the largest num_reps and ts_length.
MaxTicks == 2

\* What random_state.rand() returns: values of [0, 1).
RandValues == {Zero, <<1, 5>>, <<1, 3>>, <<1, 2>>, <<3, 4>>}

\* tuple(actions[i+1:]) + tuple(actions[:i]); actions[j] is the action of
\* player j.
opponent_actions(actions, i) == [m \in 1 .. (N - 1) |-> actions[(i + m) % N]]

\* self.players[i].logit_choice_cdfs[opponent_actions]
CdfRow(table, opp) ==
    [h \in Indices(<<AxisLen(table, ndim(table))>>) |-> table[Append(opp, h[1])]]

\* side='left': the number of entries < v
searchsorted_left(cdf, v) == Cardinality({k \in Range(len(cdf)) : RLt(cdf[<<k>>], v)})
\* ndarray.searchsorted(v, side='right') on an ascending array: the number
\* of entries <= v.
searchsorted_right(cdf, v) == Cardinality({k \in Range(len(cdf)) : RLe(cdf[<<k>>], v)})

\* LogitDynamics._play: random_value is what random_state.rand() returns.
logit_play(player_ind, actions, random_value) ==
    LET cdf == CdfRow(logit_choice_cdfs[player_ind].x,
                      opponent_actions(actions, player_ind))
    IN  searchsorted_right(cdf, RMul(random_value, cdf[<<len(cdf) - 1>>]))

\* the loop stopped after num_reps entries
TicksNumReps(player_ind_seq, num_reps) == Min(Len(player_ind_seq), num_reps)
\* The iterations of `for t, player_ind in enumerate(player_ind_seq)`.
Ticks(player_ind_seq, num_reps) == Len(player_ind_seq)

\* the row written after the revision
RecordedAfter(before, after) == after
\* out[t, i] = actions[i] for every i, ahead of the revision of tick t.
Recorded(before, after) == before

\* The common prologue of play and time_series, called with a RandomState:
\* random_actions is what random_pure_actions returns when init_actions is
\* None; the local list is a copy of init_actions, which is left alone.
LogitCall(method, e, init_actions, random_actions, player_ind_seq, num_reps) ==
    /\ Idle
    /\ e \in DOMAIN ld
    /\ init_actions # None => random_actions = init_actions.x
    /\ frame' = [pc |-> "logit.for", method |-> method, e |-> e,
                 init_actions |-> init_actions, actions |-> random_actions,
                 player_ind_seq |-> player_ind_seq, num_reps |-> num_reps,
                 t |-> 0, player_ind |-> -1, random_value |-> None, out |-> <<>>]
    /\ UNCHANGED <<N, nums_actions, payoff_array, same_array, current_assessment,
                   logit_choice_cdfs, fp, ld, query, calls, mtrand, written>>

\* LogitDynamics.play(init_actions, player_ind_seq, num_reps, random_state):
\* player_ind_seq is None (randint is what random_state.randint(N,
\* size=num_reps) returns), one player index, or a sequence of them.
LogitPlay(e, init_actions, random_actions, player_ind_seq, num_reps, randint) ==
    /\ player_ind_seq = None => Len(randint) = num_reps
    /\ player_ind_seq # None => randint = <<>>
    /\ LogitCall("play", e, init_actions, random_actions,
                 IF player_ind_seq = None THEN randint
                 ELSE IF player_ind_seq.kind = "int" THEN <<player_ind_seq.a>>
                 ELSE player_ind_seq.x,
                 num_reps)

\* LogitDynamics.time_series(ts_length, init_actions, random_state): randint
\* is what random_state.randint(N, size=ts_length) returns.
LogitTimeSeries(e, ts_length, init_actions, random_actions, randint) ==
    /\ Len(randint) = ts_length
    /\ LogitCall("time_series", e, init_actions, random_actions, randint, ts_length)

\* One iteration of the loop of play or time_series.
LogitTick(random_value) ==
    /\ frame.pc = "logit.for"
    /\ frame.t < Ticks(frame.player_ind_seq, frame.num_reps)
    /\ LET player_ind == frame.player_ind_seq[frame.t + 1]
           after == [frame.actions EXCEPT
                        ![player_ind] = logit_play(player_ind, frame.actions,
                                                   random_value)]
       IN  frame' = [frame EXCEPT
                        !.out = IF frame.method = "time_series"
                                THEN Append(@, Recorded(frame.actions, after))
                                ELSE @,
                        !.actions = after,
                        !.player_ind = player_ind,
                        !.random_value = Some(random_value),
                        !.t = @ + 1]
    /\ UNCHANGED <<N, nums_actions, payoff_array, same_array, current_assessment,
                   logit_choice_cdfs, fp, ld, query, calls, mtrand, written>>

\* return tuple(init_actions) of play, return out of time_series.
LogitReturn ==
    /\ frame.pc = "logit.for"
    /\ ~(frame.t < Ticks(frame.player_ind_seq, frame.num_reps))
    /\ frame' = [frame EXCEPT
                    !.pc = "logit.return",
                    !.out = IF frame.method = "play" THEN <<frame.actions>> ELSE @]
    /\ UNCHANGED <<N, nums_actions, payoff_array, same_array, current_assessment,
                   logit_choice_cdfs, fp, ld, query, calls, mtrand, written>>

\* Sequences of player indices of length lo..hi.
IndexSeqs(lo, hi) == UNION {[1 .. n -> Range(N)] : n \in lo .. hi}
PlayerIndSeqs ==
    {None} \cup {IntArg(i) : i \in Range(N)}
           \cup {Some(q) : q \in IndexSeqs(0, MaxTicks)}

LogitGames ==
    {Game(PlayersFromMatrix(coordination_matrix), TRUE),
     Game(PlayersFromProfileArray(GenArray(<<2, 3>>, 1)), FALSE),
     Game(PlayersFromProfileArray(GenArray(<<2, 2, 2>>, 1)), FALSE)}

InitLogit == \E G \in LogitGames : InitGame(G)

\* The caller is done with the result of the call.
LogitDiscard ==
    /\ frame.pc = "logit.return"
    /\ frame' = NoFrame
    /\ UNCHANGED <<N, nums_actions, payoff_array, same_array, current_assessment,
                   logit_choice_cdfs, fp, ld, query, calls, mtrand, written>>

NextLogit ==
    \/ \E b \in Betas : NewLogitDynamics(1, b)
    \/ /\ Idle
       /\ \E actions \in ActionProfiles : \E init_actions \in {None, Some(actions)} :
            \E num_reps \in 1 .. MaxTicks :
              \/ \E player_ind_seq \in PlayerIndSeqs \ {None} :
                   LogitPlay(1, init_actions, actions, player_ind_seq, num_reps, <<>>)
              \/ \E randint \in IndexSeqs(num_reps, num_reps) :
                   LogitPlay(1, init_actions, actions, None, num_reps, randint)
    \/ /\ Idle
       /\ \E ts_length \in 0 .. MaxTicks : \E actions \in ActionProfiles :
            \E init_actions \in {None, Some(actions)} :
              \E randint \in IndexSeqs(ts_length, ts_length) :
                LogitTimeSeries(1, ts_length, init_actions, actions, randint)
    \/ \E random_value \in RandValues : LogitTick(random_value)
    \/ LogitReturn
    \/ LogitDiscard

SpecLogit == InitLogit /\ [][NextLogit]_vars

\* ----------------------------------- writes, every construction mode
\* Two-player games built from action sizes, from a payoff profile array,
\* from Players and from one square matrix.
WriteData ==
    {ArrayData([x \in Indices(<<2>>) |-> Rat(2)]),
     ArrayData(matching_pennies),
     PlayersData(<<Filled(<<2, 2>>, 1), Filled(<<2, 2>>, 2)>>),
     ArrayData(coordination_matrix)}

InitWrite == \E data \in WriteData : InitGame(NormalFormGame(data).value)

SpecWrite == InitWrite /\ [][NextSet]_vars

\* ------------------------------- best_response and the payoff array
\* Calls of best_response in one behaviour.
MaxResponses == 2

\* player.payoff_array after best_response(opponents_actions,
\* payoff_perturbation=...): with no opponent payoff_vector returns
\* self.payoff_array itself, and `payoff_vector += payoff_perturbation`
\* writes it; take and dot return new arrays.
AfterBestResponse(pa, opponents_actions, payoff_perturbation) ==
    IF /\ num_opponents(pa) = 0
       /\ payoff_perturbation # None
       /\ CanAdd(payoff_vector(pa, opponents_actions), payoff_perturbation.x)
    THEN iadd(pa, payoff_perturbation.x)
    ELSE pa

\* player.best_response(opp, tie_breaking, payoff_perturbation), random_state
\* left None; idx is what randint returns when random_choice calls it.
BestResponsePerturbed(i, opp, tie_breaking, payoff_perturbation, idx) ==
    LET pa == payoff_array[i]
        candidates == where(perturbed(pa, opp, payoff_perturbation))
        after == AfterBestResponse(pa, opp, payoff_perturbation)
    IN  /\ calls < MaxResponses
        /\ idx \in Range(Len(candidates))
        /\ tie_breaking # "random" => idx = 0
        /\ calls' = calls + 1
        /\ query' = [op |-> "best_response(payoff_perturbation)", player |-> i,
                     opponents |-> opp, tie_breaking |-> tie_breaking,
                     payoff_perturbation |-> payoff_perturbation,
                     result |-> best_response(pa, opp, tie_breaking,
                                              payoff_perturbation, idx)]
        /\ payoff_array' = IF same_array THEN [j \in Range(N) |-> after]
                           ELSE [payoff_array EXCEPT ![i] = after]
        /\ mtrand' = IF tie_breaking = "random"
                     THEN Advance(mtrand, Draws(Len(candidates))) ELSE mtrand
        /\ UNCHANGED <<N, nums_actions, same_array, current_assessment,
                       logit_choice_cdfs, fp, ld, frame, written>>

\* One-player games of two actions (the Player holds a 1-dimensional payoff
\* array), matching pennies and the symmetric game of one matrix.
SoloGames ==
    {Game([i \in Range(1) |-> pa], FALSE) :
        pa \in [Indices(<<2>>) -> {Rat(k) : k \in 0 .. MaxPayoff}]}
    \cup {Game(PlayersFromProfileArray(matching_pennies), FALSE),
          Game(PlayersFromMatrix(coordination_matrix), TRUE)}

\* Perturbations of 0 and 1.
WholePerturbations(n) == {Some(x) : x \in [Indices(<<n>>) -> {Zero, One}]}

InitSolo == \E G \in SoloGames : InitGame(G)

NextSolo ==
    \E i \in Range(N) : \E opp \in OpponentProfiles(i) :
      \E tie_breaking \in TieBreakings :
        \E payoff_perturbation \in {None} \cup WholePerturbations(nums_actions[i]) :
          \E idx \in Range(nums_actions[i]) :
            BestResponsePerturbed(i, AsArgument(i, opp, {}), tie_breaking,
                                  payoff_perturbation, idx)

SpecSolo == InitSolo /\ [][NextSolo]_vars

\* ---------------------------------------------------------------- claims
SeqToSet(q) == {q[m] : m \in 1 .. Len(q)}
StrictlyAscending(q) == \A m \in 1 .. (Len(q) - 1) : q[m] < q[m + 1]

\* C9: for every player of a game with N >= 2 players and every pure profile
\* of the opponents, payoff_vector on the pure profile equals payoff_vector
\* on the profile in which some or all of the pure actions are replaced by
\* their one-hot mixed actions.
C9_PureEqualsOneHot ==
    query.op = "payoff_vector" => query.pure = query.mixed

\* A three-player game, only the second opponent's action replaced, and a
\* payoff vector that is not constant.
C9_Witness ==
    /\ query.op = "payoff_vector"
    /\ N = 3
    /\ query.replaced = {2}
    /\ query.opponents = <<1, 0>>
    /\ query.mixed[<<0>>] # query.mixed[<<1>>]

\* C10: for every payoff vector, best_response with tie_breaking=False
\* returns a non-empty, strictly ascending sequence of actions that holds
\* the action returned with tie_breaking='smallest' and every action that
\* tie_breaking='random' returns.
C10_FalseHoldsSmallestAndRandom ==
    query.op = "best_response" =>
        /\ query.all.raised = "" /\ query.smallest.raised = ""
        /\ query.random.raised = ""
        /\ query.all.value # <<>>
        /\ StrictlyAscending(query.all.value)
        /\ SeqToSet(query.all.value) \subseteq Range(nums_actions[query.player])
        /\ query.smallest.value \in SeqToSet(query.all.value)
        /\ query.random.value \in SeqToSet(query.all.value)

\* Two payoffs within tol of each other without being equal: the sequence
\* holds both actions, 'smallest' returns the exact maximum (action 1) and
\* 'random' returns the other one.
C10_Witness ==
    /\ query.op = "best_response"
    /\ query.payoff_perturbation # None
    /\ query.all.value = <<0, 1>>
    /\ query.smallest.value = 1
    /\ query.random.value = 0

\* The engine whose method is running, and its state.
Running == frame.pc # "idle"
engine == fp[frame.e]
Decreasing == engine.step_size = "initial_weight"

RECURSIVE SumFrom(_, _)
SumFrom(v, m) == IF m = len(v) THEN Zero ELSE RAdd(v[<<m>>], SumFrom(v, m + 1))
\* Non-negative entries that sum to 1.
IsDistribution(v) ==
    /\ \A x \in DOMAIN v : RLe(Zero, v[x])
    /\ SumFrom(v, 0) = One

\* The assessment about player j that player i holds (j # i).
SlotOf(i, j) == CHOOSE k \in 1 .. (N - 1) : opponent_list(i)[k] = j
AssessmentAbout(i, j) == current_assessment[i].x[SlotOf(i, j)]

\* The empirical frequency of player j's actions in the profiles played.
Frequency(played, j) ==
    [x \in Indices(<<nums_actions[j]>>) |->
        Norm(Cardinality({m \in 1 .. Len(played) : played[m][j] = x[1]}),
             Len(played))]

\* w * u + (1 - w) * v
Combine(w, u, v) ==
    [x \in DOMAIN u |-> RAdd(RMul(w, u[x]), RMul(RSub(One, w), v[x]))]

\* C1: in one round all players' best responses are computed from the same
\* pre-round assessments: while the best responses of a round are being
\* chosen no assessment has been changed in that round, the assessments are
\* updated only once every player has chosen, and each chosen action is the
\* best response to the pre-round assessments.
C1_BestResponsesReadPreRoundBeliefs ==
    /\ (Running /\ frame.pc \in {"draw", "play"}) =>
           current_assessment = frame.snapshot
    /\ (Running /\ frame.pc = "update") =>
           /\ frame.i = N
           /\ current_assessment = frame.snapshot
           /\ \A i \in Range(N) :
                 engine.current_actions[i] =
                     best_response(
                         payoff_array[i], AssessmentArgument(frame.snapshot, i),
                         "smallest",
                         IF engine.cls = "StochasticFictitiousPlay"
                         THEN Some(frame.payoff_perturbations[i].x) ELSE None,
                         0).value

\* The second round of a run is about to update: every player has chosen,
\* and some player's best response differs from its action of round 1.
C1_Witness ==
    /\ Running /\ frame.pc = "update" /\ frame.t = 1
    /\ \E i \in Range(N) : engine.current_actions[i] # frame.played[2][i]

\* C2: after every round of fictitious play, from any pure initial profile,
\* every assessment of every player has non-negative entries that sum to 1,
\* for any number of players and any step size.
C2_BeliefsAreDistributions ==
    (Running /\ frame.t >= 1) =>
        \A i \in Range(N) : \A k \in 1 .. (N - 1) :
            IsDistribution(current_assessment[i].x[k])

AfterRoundOne(j) ==
    Combine(<<1, 2>>, pure2mixed(nums_actions[j], frame.played[2][j]),
            pure2mixed(nums_actions[j], frame.played[1][j]))

C5_ConstantGainFromConstruction ==
    (Running /\ engine.epsilon # None) =>
        \A k \in 1 .. Len(frame.steps) : frame.steps[k] = engine.epsilon.x

\* C6: in every round of stochastic fictitious play the perturbation of
\* player i has length n_i, and the slices of distinct players do not overlap.
C6_PerturbationLengths ==
    (Running /\ frame.pc = "play" /\ engine.cls = "StochasticFictitiousPlay") =>
        /\ \A i \in Range(N) :
              /\ len(frame.payoff_perturbations[i].x) = nums_actions[i]
              /\ frame.payoff_perturbations[i].hi - frame.payoff_perturbations[i].lo
                     = nums_actions[i]
        /\ \A i \in Range(N) : \A j \in Range(N) :
              i < j => frame.payoff_perturbations[i].hi
                           <= frame.payoff_perturbations[j].lo

\* Every assessment has been set to a distribution.
BeliefsSet ==
    \A i \in Range(N) :
        /\ current_assessment[i] # None
        /\ \A k \in 1 .. (N - 1) : IsDistribution(current_assessment[i].x[k])

\* A step of the second FictitiousPlay object: its construction, or a step
\* of one of its calls.
SecondEngineActs ==
    \/ Len(fp') > Len(fp)
    \/ frame.pc # "idle" /\ frame.e # 1
    \/ frame'.pc # "idle" /\ frame'.e # 1

\* C7: the state of an engine is its own: constructing or running a second
\* FictitiousPlay on the game leaves the assessments of the first one
\* unchanged, and constructing a second LogitDynamics leaves the choice
\* weight tables of the first one unchanged.
C7_EnginesOwnTheirState ==
    [][/\ (Len(fp) >= 1 /\ BeliefsSet /\ SecondEngineActs) =>
              current_assessment' = current_assessment
       /\ (Len(ld) >= 1 /\ Len(ld') > Len(ld)) =>
              logit_choice_cdfs' = logit_choice_cdfs]_vars

\* C8: constructing and running an engine on a game never changes the game:
\* g[p] is the same after every step of an engine as before it.
C8_EnginesLeaveTheGame ==
    [][\A p \in ActionProfiles :
          getitem(payoff_array', p) = getitem(payoff_array, p)]_vars

\* ------------------------------------------- claims on the constructor
Constructed == query.op = "NormalFormGame"
\* data is a payoff profile array of shape (n_0, ..., n_{N-1}, N)
IsProfileArray(data) ==
    /\ data.kind = "array"
    /\ ndim(data.a) >= 2
    /\ ~IsMatrix(data.a)
    /\ AxisLen(data.a, ndim(data.a)) = ndim(data.a) - 1

\* C12: for a game built from a payoff profile array D, for every action
\* profile p and every player i, g[p][i] is D[p][i], and it is the entry of
\* player i's payoff array at (p_i, ..., p_{N-1}, p_0, ..., p_{i-1}).
C12_ProfileArrayRoundTrip ==
    (Constructed /\ IsProfileArray(query.data)) =>
        /\ query.raised = ""
        /\ N = ndim(query.data.a) - 1
        /\ \A p \in ActionProfiles : \A i \in Range(N) :
             LET profile == [m \in 1 .. N |-> p[m - 1]]
             IN  /\ getitem(payoff_array, p)[i] = query.data.a[Append(profile, i)]
                 /\ payoff_array[i][Rotate(profile, i)] =
                        query.data.a[Append(profile, i)]

C12_Witness ==
    /\ Constructed /\ IsProfileArray(query.data) /\ N = 3
    /\ \E p \in ActionProfiles : getitem(payoff_array, p)[1] # getitem(payoff_array, p)[2]

\* Every player's payoff array has N axes and the shape of player 0's
\* rotated left by the player's index.
CyclicallyConsistent(q) ==
    \A i \in Range(Len(q)) :
        /\ Len(shape(q[i + 1])) = Len(q)
        /\ shape(q[i + 1]) = RotateShape(shape(q[1]), i)

\* C14: the constructor fails on every tuple of Players whose payoff arrays
\* are not cyclically consistent, a single Player whose array does not have
\* one axis included.
C14_InconsistentPlayersRejected ==
    (Constructed /\ query.data.kind = "players"
        /\ ~CyclicallyConsistent(query.data.players)) => query.raised # ""

IsTwoDimensional(data) == data.kind = "array" /\ ndim(data.a) = 2

\* C15 as stated: the constructor fails on every 2-dimensional array whose
\* number of rows differs from its number of columns.
C15_NonSquareAlwaysRejected ==
    (Constructed /\ IsTwoDimensional(query.data)
        /\ AxisLen(query.data.a, 1) # AxisLen(query.data.a, 2)) =>
        query.raised # ""

\* C15, amended: the constructor fails on every 2-dimensional array with two
\* or more columns whose number of rows differs from its number of columns;
\* an array of n rows and one column is the payoff profile array of a game
\* with one player and n actions.
C15_NonSquareRejectedFromTwoColumns ==
    (Constructed /\ IsTwoDimensional(query.data)
        /\ AxisLen(query.data.a, 1) # AxisLen(query.data.a, 2)) =>
        IF AxisLen(query.data.a, 2) >= 2 THEN query.raised # ""
        ELSE /\ query.raised = ""
             /\ N = 1
             /\ nums_actions[0] = AxisLen(query.data.a, 1)

C15_Witness ==
    /\ Constructed /\ IsTwoDimensional(query.data)
    /\ AxisLen(query.data.a, 1) = 3 /\ AxisLen(query.data.a, 2) = 2
    /\ query.raised = "ValueError"

\* ------------------------------------- claims on is_nash and g[p]
\* The opponents' actions of the profile t as player i is handed them: in
\* the order i+1, ..., N-1, 0, ..., i-1.
OpponentsOf(t, i) == AsArgument(i, Tail(Rotate(t, i)), {})

\* C11: with N >= 2 players, is_nash(profile) is true iff every player's
\* action is in the set best_response(tie_breaking=False) returns for the
\* opponents' actions in the order i+1, ..., N-1, 0, ..., i-1.
C11_NashIffAllBestResponses ==
    query.op = "is_nash" =>
        (query.result <=>
            \A i \in Range(N) :
                query.profile[i + 1] \in
                    SeqToSet(best_response(payoff_array[i],
                                           OpponentsOf(query.profile, i),
                                           "False", None, 0).value))

C11_Witness ==
    /\ query.op = "is_nash" /\ N = 3 /\ query.result
    /\ \E t \in ProfileTuples : ~is_nash(payoff_array, [m \in 1 .. N |-> Pure(t[m])])

\* C13: in a game built from a tuple of action sizes, g[q] is the payoff
\* profile last assigned at q, zeros if none was, and player i's payoff array
\* holds its component at q rotated to start at i.
C13_ReadsReturnLastWrite ==
    \A t \in ProfileTuples :
        /\ GetItem(payoff_array, TupleArg(t)) = Return(LastWritten(t))
        /\ \A i \in Range(N) : payoff_array[i][Rotate(t, i)] = LastWritten(t)[i + 1]

C13_Witness ==
    /\ N = 3
    /\ \E t \in DOMAIN written : \E u \in DOMAIN written : written[t] # written[u]
    /\ \E t \in ProfileTuples : t \notin DOMAIN written
    /\ query.op = "getitem" /\ query.result.raised = ""
    /\ query.arg.t \in DOMAIN written

WrongLength(arg) == arg.kind = "tuple" /\ Len(arg.t) # N

\* C16: with N >= 2, g[p] and g[p] = v with a profile p of a length other
\* than N raise IndexError, g[p] = v with a payoff profile v of a length
\* other than N raises an error, and a g[p] = v that raises leaves every
\* payoff array as it was.
C16_WrongLengthsRaiseAndWriteNothing ==
    [][/\ (query'.op = "getitem" /\ WrongLength(query'.arg)) =>
              query'.result.raised = "IndexError"
       /\ (query'.op = "setitem" /\ WrongLength(query'.arg)) =>
              query'.raised = "IndexError"
       /\ (query'.op = "setitem" /\ query'.arg.kind = "tuple"
              /\ ~WrongLength(query'.arg) /\ query'.value.kind = "tuple"
              /\ Len(query'.value.v) # N) => query'.raised # ""
       /\ (query'.op = "setitem" /\ query'.raised # "") =>
              payoff_array' = payoff_array]_vars

C16_Witness ==
    /\ query.op = "setitem" /\ query.raised = "ValueError"
    /\ Len(query.value.v) < N
    /\ DOMAIN written # {}

\* ------------------------------------- claims on tie breaking and choice
\* C17: best_response with a tie_breaking other than 'smallest', 'random'
\* and False raises ValueError: it returns neither an action nor a set of
\* actions.
C17_OtherTieBreakingRaises ==
    (query.op = "best_response(tie_breaking)"
        /\ query.tie_breaking \notin {"smallest", "random", "False"}) =>
        query.result = Raise("ValueError")

C17_Witness ==
    /\ query.op = "best_response(tie_breaking)"
    /\ query.tie_breaking = "largest"
    /\ query.result.raised = "ValueError"
    /\ N = 3

\* The candidates of the random selection the call q made, none if it made
\* no selection.
Selected(q) ==
    IF q.op = "best_response(tie_breaking)"
    THEN (IF q.tie_breaking = "random"
          THEN where(payoff_vector(payoff_array[q.player], q.opponents))
          ELSE <<>>)
    ELSE IF q.op = "random_choice"
    THEN CandidatesOf(payoff_array[q.player], q.actions)
    ELSE IF q.op = "game_tools.random_choice" THEN q.actions.x
    ELSE <<>>

\* C18: a random selection among exactly one candidate (Player.random_choice,
\* game_tools.random_choice, best_response with tie_breaking='random')
\* returns the candidate and leaves the generator as it was.
C18_OneCandidateDrawsNothing ==
    [][Len(Selected(query')) = 1 =>
          /\ query'.result = Return(Selected(query')[1])
          /\ mtrand' = mtrand]_vars

C18_Witness ==
    /\ query.op = "best_response(tie_breaking)"
    /\ query.tie_breaking = "random"
    /\ Len(Selected(query)) = 1
    /\ mtrand = 1

\* ------------------------------------------- claims on the time series
\* get_time_series is about to return assessment_list.
SeriesReturns == frame.pc = "return" /\ frame.method = "get_time_series"

C20_RunsLeaveTheGlobalGenerator ==
    [][LET f == IF frame'.pc # "idle" THEN frame' ELSE frame
       IN  (f.pc # "idle" /\ fp'[f.e].cls = "StochasticFictitiousPlay") =>
               mtrand' = mtrand]_vars

Searching == frame.pc = "searchsorted.while"
SearchReturned == frame.pc = "searchsorted.return"
\* the number of elements of a that are <= v
CountLe(a, v) == Cardinality({m \in 1 .. Len(a) : RLe(a[m], v)})

C24_ReadsInRangeAndCount ==
    /\ (Searching \/ SearchReturned) =>
          \A k \in 1 .. Len(frame.read) : frame.read[k] \in Range(Len(frame.a))
    /\ SearchReturned =>
          LET a == frame.a
              v == frame.v
              n == Len(a)
          IN  /\ frame.result = CountLe(a, v)
              /\ (n > 0 /\ RLt(v, a[1])) => frame.result = 0
              /\ (n > 0 /\ RLe(a[n], v)) => frame.result = n
              /\ \A m \in 1 .. n : a[m] = v => frame.result >= m
              /\ frame.result < n => RLt(v, a[frame.result + 1])

\* C24: for every ascending array a of length n and every value v,
\* searchsorted(a, v) terminates and returns the number of elements of a
\* that are <= v: 0 when v < a[0], n when v >= a[n-1], the index just past
\* the last entry equal to v otherwise; every index read from a during the
\* search lies in 0..n-1.
C24_SearchsortedIsRightInsertionPoint ==
    /\ []C24_ReadsInRangeAndCount
    /\ (Searching ~> SearchReturned)

\* a search that returned the index just past two entries equal to v, with a
\* larger entry after them
C24_Witness ==
    /\ SearchReturned
    /\ Len(frame.a) = 3
    /\ frame.a[1] = frame.v
    /\ frame.a[2] = frame.v
    /\ RLt(frame.v, frame.a[3])
    /\ frame.result = 2
    /\ Len(frame.read) >= 2

\* A step of the loop of play / time_series, and the step leaving it.
LogitTicks(method) ==
    /\ frame.pc = "logit.for"
    /\ frame.method = method
    /\ frame'.pc = "logit.for"
    /\ frame'.t = frame.t + 1
LogitReturns(method) ==
    /\ frame.pc = "logit.for"
    /\ frame.method = method
    /\ frame'.pc = "logit.return"

\* C21: LogitDynamics.play with a revision sequence applies exactly one
\* revision per entry of the sequence, in order, whatever num_reps is; a
\* revision changes the action of the revising player only and reads the
\* profile as the earlier revisions left it; the init_actions object of the
\* caller is not modified.
C21_OneRevisionPerEntry ==
    [][/\ LogitTicks("play") =>
            LET i == frame.player_ind_seq[frame.t + 1]
            IN  /\ frame'.player_ind = i
                /\ \A j \in Range(N) \ {i} : frame'.actions[j] = frame.actions[j]
                /\ frame'.actions[i] =
                      logit_play(i, frame.actions, frame'.random_value.x)
                /\ frame'.init_actions = frame.init_actions
       /\ LogitReturns("play") =>
            /\ frame.t = Len(frame.player_ind_seq)
            /\ frame'.out = <<frame.actions>>
            /\ frame'.init_actions = frame.init_actions]_vars

\* play((a0, a1), player_ind_seq=[0, 1], num_reps=1) has returned a profile
\* in which both players have left their initial action
C21_Witness ==
    /\ frame.pc = "logit.return"
    /\ frame.method = "play"
    /\ frame.player_ind_seq = <<0, 1>>
    /\ frame.num_reps = 1
    /\ frame.t = 2
    /\ frame.init_actions # None
    /\ frame.out[1][0] # frame.init_actions.x[0]
    /\ frame.out[1][1] # frame.init_actions.x[1]

\* The cumulative weight of action h of player i against the opponents'
\* actions in the profile p.
Weight(i, p, h) ==
    logit_choice_cdfs[i].x[Append([m \in 1 .. (N - 1) |-> p[(i + m) % N]], h)]

\* C22: in a logit revision of player i the row of cumulative weights is
\* the one indexed by the current actions of players i+1, ..., N-1, 0, ...,
\* i-1, and the new action is the smallest index whose cumulative weight is
\* strictly greater than the draw v of [0, total weight); every player's
\* action is a valid index after every revision.
C22_SmallestIndexAboveTheDraw ==
    [][(LogitTicks("play") \/ LogitTicks("time_series")) =>
          LET i == frame'.player_ind
              k == frame'.actions[i]
              total == Weight(i, frame.actions, nums_actions[i] - 1)
              v == RMul(frame'.random_value.x, total)
          IN  /\ RLe(Zero, v) /\ RLt(v, total)
              /\ k \in Range(nums_actions[i])
              /\ RLt(v, Weight(i, frame.actions, k))
              /\ \A h \in Range(k) : RLe(Weight(i, frame.actions, h), v)
              /\ \A j \in Range(N) : frame'.actions[j] \in Range(nums_actions[j])]_vars

\* a revision whose draw equals the cumulative weight of the action just
\* below the one chosen
C22_Witness ==
    /\ frame.pc = "logit.for"
    /\ frame.t >= 1
    /\ frame.actions[frame.player_ind] >= 1
    /\ RMul(frame.random_value.x,
            Weight(frame.player_ind, frame.actions,
                   nums_actions[frame.player_ind] - 1))
         = Weight(frame.player_ind, frame.actions,
                  frame.actions[frame.player_ind] - 1)

\* C23: LogitDynamics.time_series returns ts_length rows of N actions; row 0
\* is init_actions, row t the profile before tick t; two consecutive rows
\* differ at most in the action of the player revising at that tick; the
\* result of the last tick is not recorded.
C23_SeriesHoldsProfileBeforeEachTick ==
    [][/\ LogitTicks("time_series") =>
            /\ Len(frame.out) = frame.t
            /\ frame'.out = Append(frame.out, frame.actions)
       /\ LogitReturns("time_series") =>
            LET out == frame'.out
                seq == frame.player_ind_seq
            IN  /\ out = frame.out
                /\ Len(out) = frame.num_reps
                /\ \A t \in 1 .. Len(out) : DOMAIN out[t] = Range(N)
                /\ (Len(out) >= 1 /\ frame.init_actions # None) =>
                      out[1] = frame.init_actions.x
                /\ \A t \in 1 .. (Len(out) - 1) : \A j \in Range(N) :
                      j # seq[t] => out[t + 1][j] = out[t][j]]_vars

\* a series of two rows that differ, returned after a last tick that
\* changed the profile again
C23_Witness ==
    /\ frame.pc = "logit.return"
    /\ frame.method = "time_series"
    /\ frame.num_reps = 2
    /\ Len(frame.out) = 2
    /\ frame.out[1] # frame.out[2]
    /\ frame.actions # frame.out[2]

\* C25: after set_init_actions(init_actions), for any number of players
\* N >= 2, the assessment of every player i about each opponent j is the
\* one-hot vector of length n_j with the 1 at init_actions[j]: none is left
\* uninitialized, none is set from another opponent's action or size.
C25_InitialAssessmentsAreOneHot ==
    Running =>
        \A i \in Range(N) : \A j \in Range(N) \ {i} :
            frame.history[1][i].x[SlotOf(i, j)]
                = pure2mixed(nums_actions[j], frame.played[1][j])

\* C26: a write g[p] = v changes the payoffs at the profile p only: g[q] is
\* the same before and after the write for every profile q other than p, in
\* games of every construction mode, the symmetric two-player game built
\* from one square matrix included.
C26_WritesChangeOneProfile ==
    [][(query'.op = "setitem" /\ query'.raised = "" /\ query'.arg.kind = "tuple") =>
          \A q \in ProfileTuples \ {query'.arg.t} :
              GetItem(payoff_array', TupleArg(q)) = GetItem(payoff_array, TupleArg(q))]_vars

\* C27: best_response, with or without a payoff_perturbation, leaves the
\* payoff array of the player unchanged for every number of opponents, zero
\* included: a second call with the same arguments (tie_breaking 'smallest'
\* or False) returns what the first one returned.
C27_BestResponseLeavesPayoffs ==
    [][query'.op = "best_response(payoff_perturbation)" =>
          /\ payoff_array' = payoff_array
          /\ (/\ query.op = query'.op
              /\ query'.tie_breaking \in {"smallest", "False"}
              /\ query'.player = query.player
              /\ query'.opponents = query.opponents
              /\ query'.tie_breaking = query.tie_breaking
              /\ query'.payoff_perturbation = query.payoff_perturbation)
             => query'.result = query.result]_vars

====
